---------------------------- MODULE Spec2Model ----------------------------
(***************************************************************************)
(* State-machine model of the Slider3D carousel (src/js/slider3D.js).      *)
(*                                                                         *)
(* One Slider3D instance is modelled together with the page events that    *)
(* reach it.  An event is dispatched to the handler the constructor        *)
(* registered for it; when no handler is registered the event happens and  *)
(* nothing runs.  `last' is a history variable: it records the most recent *)
(* event, the navigation call it made, the index before the call and the   *)
(* index goTo left for update() (before the rewrap).  `run' is a history   *)
(* variable that counts consecutive next() calls.                          *)
(***************************************************************************)
EXTENDS Integers, Sequences, FiniteSets

VARIABLES
    phase,          \* "new" (no constructor call yet), "ready", "threw"
    thrown,         \* the message of the Error the constructor threw, or "none"
    items,          \* this.items: position -> the set of classes on that item
    indicators,     \* this.indicators: position -> the set of classes on it
    nextBtn,        \* this.nextBtn is an element (TRUE) or null (FALSE)
    prevBtn,        \* this.prevBtn is an element (TRUE) or null (FALSE)
    index,          \* this.index
    viewIndex,      \* the root's --view-index property, a string of characters
    pressedKeys,    \* this.pressedKeys
    touchStartX,    \* this._touchStartX: null or Some(x)
    touchCurrentX,  \* this._touchCurrentX
    listeners,      \* the listeners _bindEvents registered
    last,           \* history: the most recent event
    run,            \* history: the current run of consecutive next() calls
    page,           \* a page of several Slider3D instances, and its last event
    cards           \* a container of concept cards, and its last click

vars == <<phase, thrown, items, indicators, nextBtn, prevBtn, index, viewIndex,
          pressedKeys, touchStartX, touchCurrentX, listeners, last, run,
          page, cards>>

\* the page of several sliders and the concept cards
aside == <<page, cards>>

\* the single instance and its history
single == <<phase, thrown, items, indicators, nextBtn, prevBtn, index, viewIndex,
            pressedKeys, touchStartX, touchCurrentX, listeners, last, run>>

\* the instance's own state and everything it writes on the page
sliderVars == <<items, indicators, nextBtn, prevBtn, index, viewIndex,
                pressedKeys, touchStartX, touchCurrentX, listeners>>

-----------------------------------------------------------------------------
(* Bounds of the model *)

\* the largest number of .item elements under a slider root
MaxN == 4
\* the largest number of indicator elements under a slider root
MaxM == 2
\* goTo is called with every target in -MaxTarget..MaxTarget ...
MaxTarget == 3
\* ... and with the far targets -BigTarget and BigTarget
BigTarget == 347
\* the number of items of the slider that receives every kind of event
FrameN == 3

(* Program constants *)

\* the 100 of the rewrap condition in update()
WrapLimit == 100
\* this._swipeThreshold
SwipeThreshold == 30

-----------------------------------------------------------------------------
(* Values *)

null == <<>>
Some(x) == <<x>>

Abs(x) == IF x < 0 THEN -x ELSE x

\* JavaScript's % : the remainder takes the sign of the dividend
JsRem(n, m) == IF n >= 0 THEN n % m ELSE -((-n) % m)

\* mutant of mod: JavaScript's % alone, negative for a negative dividend
modTruncated(n, m) == JsRem(n, m)

\* const mod = (n, m) => ((n % m) + m) % m
mod(n, m) == JsRem(JsRem(n, m) + m, m)

\* Math.ceil(a / b) for a, b > 0
CeilDiv(a, b) == (a + b - 1) \div b

Digit(d) == <<"0", "1", "2", "3", "4", "5", "6", "7", "8", "9">>[d + 1]

RECURSIVE NatToString(_)
NatToString(n) ==
    IF n < 10 THEN <<Digit(n)>>
    ELSE NatToString(n \div 10) \o <<Digit(n % 10)>>

\* Number.prototype.toString() of an integer: its decimal digits, "-" first
\* when it is negative
toString(n) == IF n < 0 THEN <<"-">> \o NatToString(-n) ELSE NatToString(n)

Keys == {"ArrowLeft", "ArrowRight", "Enter"}
TouchXs == {50, 70, 100, 131}
ItemFlags == {"in-view", "next-item", "previous-item"}

\* this.items.length, this.indicators.length
length(arr) == Cardinality(DOMAIN arr)
N == length(items)
M == length(indicators)

-----------------------------------------------------------------------------
(* Slider3D methods *)

\* mutant of normalize: the half turn is taken forwards, the range being
\* (-total/2, total/2]
normalizeHalfUp(number, total) ==
    -((mod(total - 2 * number, 2 * total) - total) \div 2)

\* _normalize(number), with this.items.length = total.  halfItems =
\* total / 2 is a half-integer when total is odd, so the sum and the
\* modulus are held doubled: mod(number + total/2, total) - total/2 is
\* (mod(2*number + total, 2*total) - total) / 2, and the numerator is even.
normalize(number, total) ==
    (mod(2 * number + total, 2 * total) - total) \div 2

\* mutant of goToIndex: the distance is not taken from the current index
goToIndexAbsolute(idx, target, total) == idx + normalize(target, total)

\* goTo(target) up to its call of update(): the value this.index holds
\* when update() starts
goToIndex(idx, target, total) == idx + normalize(target - idx, total)

\* mutant of rewrap: the index is reset to 0
rewrapToZero(idx, total) ==
    IF Abs(idx) > total * CeilDiv(WrapLimit, total) THEN 0 ELSE idx

\* mutant of rewrap: only an index above the bound is rewrapped
rewrapAbove(idx, total) ==
    IF idx > total * CeilDiv(WrapLimit, total) THEN mod(idx, total) ELSE idx

\* update(), line 208: the value update() leaves in this.index
rewrap(idx, total) ==
    IF Abs(idx) > total * CeilDiv(WrapLimit, total) THEN mod(idx, total) ELSE idx

\* mutant of itemClassesAfter: the flags of the items are not cleared first
itemClassesAfterKeep(old, i, idx, total) ==
    old
        \cup (IF i = mod(idx, total) THEN {"in-view"} ELSE {})
        \cup (IF i = mod(idx + 1, total) THEN {"next-item"} ELSE {})
        \cup (IF i = mod(idx - 1, total) THEN {"previous-item"} ELSE {})

\* update(), lines 212-215: the classes on item i afterwards.  current,
\* next and previous are computed from the index update() started with.
itemClassesAfter(old, i, idx, total) ==
    (old \ ItemFlags)
        \cup (IF i = mod(idx, total) THEN {"in-view"} ELSE {})
        \cup (IF i = mod(idx + 1, total) THEN {"next-item"} ELSE {})
        \cup (IF i = mod(idx - 1, total) THEN {"previous-item"} ELSE {})

\* mutant of indicatorClassesAfter: "active" is not cleared first
indicatorClassesAfterKeep(old, i, idx, total) ==
    old \cup (IF i = mod(idx, total) THEN {"active"} ELSE {})

\* update(), lines 217-218: the classes on indicator i afterwards
indicatorClassesAfter(old, i, idx, total) ==
    (old \ {"active"}) \cup (IF i = mod(idx, total) THEN {"active"} ELSE {})

\* mutant of update: the property is published before the rewrap
updatePublishesRaw(idx, its, inds) ==
    /\ index' = rewrap(idx, length(its))
    /\ viewIndex' = toString(idx)
    /\ items' = [i \in DOMAIN its |->
                    itemClassesAfter(its[i], i, idx, length(its))]
    /\ indicators' = [i \in DOMAIN inds |->
                    indicatorClassesAfter(inds[i], i, idx, length(its))]

\* update() run with this.index = idx on the item and indicator lists given
update(idx, its, inds) ==
    /\ index' = rewrap(idx, length(its))
    /\ viewIndex' = toString(rewrap(idx, length(its)))
    /\ items' = [i \in DOMAIN its |->
                    itemClassesAfter(its[i], i, idx, length(its))]
    /\ indicators' = [i \in DOMAIN inds |->
                    indicatorClassesAfter(inds[i], i, idx, length(its))]

\* goTo(target)
goTo(target) == update(goToIndex(index, target, N), items, indicators)

\* next()
next == goTo(index + 1)

\* prev()
prev == goTo(index - 1)

-----------------------------------------------------------------------------
(* History *)

\* the record of an event: ev the event, key its key or constructor
\* argument, held whether the key was in pressedKeys, touches the length of
\* event.touches, nav the navigation method the handler called, target the
\* argument goTo received, pre this.index before the event, raw this.index
\* when update() started, startX and currentX the touch tracking before it
Event(ev, key, held, touches, nav, target) ==
    [ev |-> ev, key |-> key, held |-> held, touches |-> touches, nav |-> nav,
     target |-> IF nav = "none" THEN 0 ELSE target,
     pre |-> index,
     raw |-> IF nav = "none" THEN index ELSE goToIndex(index, target, N),
     startX |-> touchStartX, currentX |-> touchCurrentX]

NoRun == [base |-> 0, view |-> {}, count |-> 0, wrapped |-> FALSE]

-----------------------------------------------------------------------------
(* Construction *)

RootArgs == {"selector-hit", "selector-miss", "element", "null", "number", "object"}

\* constructor, lines 19-27: the error thrown for the argument root, or
\* "none" when it resolves to an element
rootError(root) ==
    IF root \in {"selector-hit", "selector-miss"}
    THEN IF root = "selector-miss" THEN "No element matches selector" ELSE "none"
    ELSE IF root = "element" THEN "none"
         ELSE "Slider3D requires a selector string or an HTMLElement"

\* _bindEvents: the listeners registered when the controls nb (next) and pb
\* (prev) exist and there are m indicators; indicator i's listener is
\* "indicator.click" and calls goTo(i)
bindEvents(nb, pb, m) ==
    (IF nb THEN {"next.click"} ELSE {})
        \cup (IF pb THEN {"prev.click"} ELSE {})
        \cup (IF m > 0 THEN {"indicator.click"} ELSE {})
        \cup {"keydown", "keyup", "touchstart", "touchmove", "touchend", "touchcancel"}

\* the page's markup: n items and m indicators, those at the positions in
\* stale already carrying the classes update() manages
markupItems(n, stale) ==
    [i \in 0 .. n - 1 |-> IF i \in stale THEN ItemFlags ELSE {}]
markupIndicators(m, stale) ==
    [i \in 0 .. m - 1 |-> IF i \in stale THEN {"active"} ELSE {}]

\* mutant of constructor: the listeners are registered before the argument
\* is looked at
constructorBindsFirst(root, n, m, nb, pb, stale) ==
    IF rootError(root) # "none"
    THEN /\ phase' = "threw"
         /\ thrown' = rootError(root)
         /\ listeners' = bindEvents(nb, pb, m)
         /\ UNCHANGED <<items, indicators, nextBtn, prevBtn, index, viewIndex,
                        pressedKeys, touchStartX, touchCurrentX>>
    ELSE /\ phase' = "ready"
         /\ thrown' = "none"
         /\ nextBtn' = nb
         /\ prevBtn' = pb
         /\ pressedKeys' = {}
         /\ touchStartX' = null
         /\ touchCurrentX' = 0
         /\ listeners' = bindEvents(nb, pb, m)
         /\ update(0, markupItems(n, stale), markupIndicators(m, stale))

\* new Slider3D(root) on a page whose slider root holds n items, m
\* indicators and the controls nb, pb
constructor(root, n, m, nb, pb, stale) ==
    IF rootError(root) # "none"
    THEN /\ phase' = "threw"
         /\ thrown' = rootError(root)
         /\ UNCHANGED sliderVars
    ELSE /\ phase' = "ready"
         /\ thrown' = "none"
         /\ nextBtn' = nb
         /\ prevBtn' = pb
         /\ pressedKeys' = {}
         /\ touchStartX' = null
         /\ touchCurrentX' = 0
         /\ listeners' = bindEvents(nb, pb, m)
         /\ update(0, markupItems(n, stale), markupIndicators(m, stale))

-----------------------------------------------------------------------------
(* Handlers *)

\* a handler's call of a navigation method, or of none
call(method, target) ==
    IF method = "next" THEN next
    ELSE IF method = "prev" THEN prev
    ELSE IF method = "goTo" THEN goTo(target)
    ELSE UNCHANGED <<index, viewIndex, items, indicators>>

\* mutant of keyDownCall: a key other than ArrowLeft calls next()
keyDownCallAnyKey(k, pressed) ==
    IF k \in pressed THEN "none"
    ELSE IF k = "ArrowLeft" THEN "prev"
    ELSE "next"

\* mutant of keyDownCall: a key that is already held navigates again
keyDownCallRepeats(k, pressed) ==
    IF k = "ArrowLeft" THEN "prev"
    ELSE IF k = "ArrowRight" THEN "next"
    ELSE "none"

\* _handleKeyDown: the method called for key k when pressed is this.pressedKeys
keyDownCall(k, pressed) ==
    IF k \in pressed THEN "none"
    ELSE IF k = "ArrowLeft" THEN "prev"
    ELSE IF k = "ArrowRight" THEN "next"
    ELSE "none"

\* _handleKeyDown: this.pressedKeys afterwards
keyDownKeys(k, pressed) == IF k \in pressed THEN pressed ELSE pressed \cup {k}

\* _handleKeyDown
handleKeyDown(k) ==
    /\ pressedKeys' = keyDownKeys(k, pressedKeys)
    /\ call(keyDownCall(k, pressedKeys), 0)
    /\ UNCHANGED <<nextBtn, prevBtn, touchStartX, touchCurrentX, listeners>>

\* _handleKeyUp
handleKeyUp(k) ==
    /\ pressedKeys' = pressedKeys \ {k}
    /\ UNCHANGED <<items, indicators, nextBtn, prevBtn, index, viewIndex,
                   touchStartX, touchCurrentX, listeners>>

\* _handleTouchStart, for an event whose first touch is at x
handleTouchStart(x, touches) ==
    /\ IF touches = 1
       THEN touchStartX' = Some(x) /\ touchCurrentX' = x
       ELSE UNCHANGED <<touchStartX, touchCurrentX>>
    /\ UNCHANGED <<items, indicators, nextBtn, prevBtn, index, viewIndex,
                   pressedKeys, listeners>>

\* _handleTouchMove
handleTouchMove(x, touches) ==
    /\ IF touchStartX # null /\ touches = 1
       THEN touchCurrentX' = x
       ELSE UNCHANGED touchCurrentX
    /\ UNCHANGED <<items, indicators, nextBtn, prevBtn, index, viewIndex,
                   pressedKeys, touchStartX, listeners>>

\* mutant of touchEndCall: a swipe of exactly the threshold navigates
touchEndCallInclusive(start, current) ==
    IF start = null THEN "none"
    ELSE IF Abs(current - start[1]) >= SwipeThreshold
         THEN IF current - start[1] > 0 THEN "prev" ELSE "next"
         ELSE "none"

\* _handleTouchEnd: the method called when the tracking is (start, current)
touchEndCall(start, current) ==
    IF start = null THEN "none"
    ELSE IF Abs(current - start[1]) > SwipeThreshold
         THEN IF current - start[1] > 0 THEN "prev" ELSE "next"
         ELSE "none"

\* _handleTouchEnd
handleTouchEnd ==
    /\ call(touchEndCall(touchStartX, touchCurrentX), 0)
    /\ IF touchStartX = null
       THEN UNCHANGED <<touchStartX, touchCurrentX>>
       ELSE touchStartX' = null /\ touchCurrentX' = 0
    /\ UNCHANGED <<nextBtn, prevBtn, pressedKeys, listeners>>

\* mutant of handleTouchCancel: the recorded start is kept
handleTouchCancelKeepsStart ==
    /\ touchCurrentX' = 0
    /\ UNCHANGED <<items, indicators, nextBtn, prevBtn, index, viewIndex,
                   pressedKeys, touchStartX, listeners>>

\* _handleTouchCancel
handleTouchCancel ==
    /\ touchStartX' = null
    /\ touchCurrentX' = 0
    /\ UNCHANGED <<items, indicators, nextBtn, prevBtn, index, viewIndex,
                   pressedKeys, listeners>>

\* the target goTo receives from the method called
targetOf(method, target) ==
    IF method = "next" THEN index + 1
    ELSE IF method = "prev" THEN index - 1
    ELSE target

-----------------------------------------------------------------------------
(* Events *)

\* an event of type type on the page: the listener registered for it runs,
\* and nothing runs when none is registered
Dispatch(type, handler) ==
    /\ phase # "new"
    /\ IF type \in listeners THEN handler ELSE UNCHANGED sliderVars
    /\ UNCHANGED <<phase, thrown>>

\* the method an event's listener calls, "none" when no listener is registered
Called(type, method) == IF type \in listeners THEN method ELSE "none"

Construct(root, n, m, nb, pb, stale) ==
    /\ phase = "new"
    /\ constructor(root, n, m, nb, pb, stale)
    /\ last' = Event("construct", root, FALSE, 0, "none", 0)

\* a script calls slider.next()
CallNext ==
    /\ phase = "ready"
    /\ next
    /\ last' = Event("call", "none", FALSE, 0, "next", index + 1)
    /\ UNCHANGED <<phase, thrown, nextBtn, prevBtn, pressedKeys, touchStartX,
                   touchCurrentX, listeners>>

\* a script calls slider.prev()
CallPrev ==
    /\ phase = "ready"
    /\ prev
    /\ last' = Event("call", "none", FALSE, 0, "prev", index - 1)
    /\ UNCHANGED <<phase, thrown, nextBtn, prevBtn, pressedKeys, touchStartX,
                   touchCurrentX, listeners>>

\* a script calls slider.goTo(t)
CallGoTo(t) ==
    /\ phase = "ready"
    /\ goTo(t)
    /\ last' = Event("call", "none", FALSE, 0, "goTo", t)
    /\ UNCHANGED <<phase, thrown, nextBtn, prevBtn, pressedKeys, touchStartX,
                   touchCurrentX, listeners>>

\* a script calls slider.update(); the event's key records whether the call
\* follows another call of update()
CallUpdate ==
    /\ phase = "ready"
    /\ update(index, items, indicators)
    /\ last' = Event("update", IF last.ev = "update" THEN "again" ELSE "first",
                     FALSE, 0, "none", 0)
    /\ UNCHANGED <<phase, thrown, nextBtn, prevBtn, pressedKeys, touchStartX,
                   touchCurrentX, listeners>>

\* listeners of _bindEvents, lines 66-71
clickHandler(method, target) ==
    /\ call(method, target)
    /\ UNCHANGED <<nextBtn, prevBtn, pressedKeys, touchStartX, touchCurrentX,
                   listeners>>

ClickNext ==
    /\ Dispatch("next.click", clickHandler("next", 0))
    /\ last' = Event("click.next", "none", FALSE, 0,
                     Called("next.click", "next"), index + 1)

ClickPrev ==
    /\ Dispatch("prev.click", clickHandler("prev", 0))
    /\ last' = Event("click.prev", "none", FALSE, 0,
                     Called("prev.click", "prev"), index - 1)

\* a click on the indicator at position i
ClickIndicator(i) ==
    /\ i \in DOMAIN indicators \/ phase = "threw"
    /\ Dispatch("indicator.click", clickHandler("goTo", i))
    /\ last' = Event("click.indicator", "none", FALSE, 0,
                     Called("indicator.click", "goTo"), i)

KeyDown(k) ==
    /\ Dispatch("keydown", handleKeyDown(k))
    /\ last' = Event("keydown", k, k \in pressedKeys, 0,
                     Called("keydown", keyDownCall(k, pressedKeys)),
                     targetOf(keyDownCall(k, pressedKeys), 0))

KeyUp(k) ==
    /\ Dispatch("keyup", handleKeyUp(k))
    /\ last' = Event("keyup", k, k \in pressedKeys, 0, "none", 0)

TouchStart(x, touches) ==
    /\ Dispatch("touchstart", handleTouchStart(x, touches))
    /\ last' = Event("touchstart", "none", FALSE, touches, "none", 0)

TouchMove(x, touches) ==
    /\ Dispatch("touchmove", handleTouchMove(x, touches))
    /\ last' = Event("touchmove", "none", FALSE, touches, "none", 0)

TouchEnd ==
    /\ Dispatch("touchend", handleTouchEnd)
    /\ last' = Event("touchend", "none", FALSE, 0,
                     Called("touchend", touchEndCall(touchStartX, touchCurrentX)),
                     targetOf(touchEndCall(touchStartX, touchCurrentX), 0))

TouchCancel ==
    /\ Dispatch("touchcancel", handleTouchCancel)
    /\ last' = Event("touchcancel", "none", FALSE, 0, "none", 0)

-----------------------------------------------------------------------------
(* A page of several sliders *)

\* the largest number of .slider-3d elements on the page
MaxSliders == 2
\* the largest number of key events on the page of several sliders
MaxPageEvents == 6

NoPage == [sliders |-> <<>>, ev |-> "none", key |-> "none", steps |-> 0]

\* new Slider3D(el) for a root of n items: the fields set, then update()
newSlider(n) ==
    [items |-> [i \in 0 .. n - 1 |-> itemClassesAfter({}, i, 0, n)],
     index |-> rewrap(0, n),
     pressedKeys |-> {}]

\* goTo(target) on the instance s
sliderGoTo(s, target) ==
    LET total == length(s.items)
        raw == goToIndex(s.index, target, total)
    IN  [s EXCEPT !.index = rewrap(raw, total),
                  !.items = [i \in DOMAIN s.items |->
                                itemClassesAfter(s.items[i], i, raw, total)]]

\* _handleKeyDown of the instance s
sliderKeyDown(s, k) ==
    LET method == keyDownCall(k, s.pressedKeys)
        t == [s EXCEPT !.pressedKeys = keyDownKeys(k, s.pressedKeys)]
    IN  IF method = "next" THEN sliderGoTo(t, s.index + 1)
        ELSE IF method = "prev" THEN sliderGoTo(t, s.index - 1)
        ELSE t

\* _handleKeyUp of the instance s
sliderKeyUp(s, k) == [s EXCEPT !.pressedKeys = s.pressedKeys \ {k}]

\* mutant of documentKeyDown: one handler slot on the document, which the
\* instance constructed last has taken
documentKeyDownLastOnly(sliders, k) ==
    [j \in DOMAIN sliders |->
        IF j = Len(sliders) THEN sliderKeyDown(sliders[j], k) ELSE sliders[j]]

\* a keydown on the document: every instance registered its own listener
\* (line 73), and each runs
documentKeyDown(sliders, k) ==
    [j \in DOMAIN sliders |-> sliderKeyDown(sliders[j], k)]

\* a keyup on the document (line 74)
documentKeyUp(sliders, k) ==
    [j \in DOMAIN sliders |-> sliderKeyUp(sliders[j], k)]

\* DOMContentLoaded: one instance for each .slider-3d element
PageLoad ==
    /\ page.sliders = <<>>
    /\ \E count \in 2 .. MaxSliders :
        \E sizes \in [1 .. count -> 1 .. MaxN] :
            page' = [NoPage EXCEPT
                        !.sliders = [j \in 1 .. count |-> newSlider(sizes[j])],
                        !.ev = "load"]

PageKeyDown(k) ==
    /\ page.sliders # <<>>
    /\ page.steps < MaxPageEvents
    /\ page' = [sliders |-> documentKeyDown(page.sliders, k),
                ev |-> "keydown", key |-> k, steps |-> page.steps + 1]

PageKeyUp(k) ==
    /\ page.sliders # <<>>
    /\ page.steps < MaxPageEvents
    /\ page' = [sliders |-> documentKeyUp(page.sliders, k),
                ev |-> "keyup", key |-> k, steps |-> page.steps + 1]

-----------------------------------------------------------------------------
(* Concept cards (src/js/index.js, and its variant without the click guard) *)

\* the largest number of .concept-card elements in the container
MaxCards == 2

\* the scrollHeight of a .variables element
Heights == {120, 250}

\* the container before the page is there.  Cards are numbered in document
\* order; parent[c] is the card c is nested in, 0 for none; hasVars[c] says
\* whether c holds a .variables element of its own and height[c] is that
\* element's scrollHeight; expanded[c] is the class "expanded" on c and
\* maxHeight[c] the max-height of c's own .variables.  History: odd[c] and
\* clicked[c] count the handled clicks on c, target is the card the last
\* click belonged to, toggled the cards it toggled, and was holds expanded
\* and maxHeight as they were before it.
NoCards ==
    [loaded |-> FALSE, variant |-> "A", parent |-> <<>>, hasVars |-> <<>>,
     height |-> <<>>, expanded |-> <<>>, maxHeight |-> <<>>, odd |-> <<>>,
     clicked |-> <<>>, target |-> 0, toggled |-> {},
     was |-> [expanded |-> <<>>, maxHeight |-> <<>>]]

\* the cards from c outwards: c, the card c is nested in, and so on
RECURSIVE cardChain(_, _)
cardChain(parent, c) ==
    IF c = 0 THEN <<>> ELSE <<c>> \o cardChain(parent, parent[c])

\* $card.find(".variables"): the .variables elements under card d, those of
\* the cards nested in d included, named by the card that owns them
find(st, d) ==
    {x \in DOMAIN st.parent :
        /\ st.hasVars[x]
        /\ \E j \in DOMAIN cardChain(st.parent, x) : cardChain(st.parent, x)[j] = d}

\* the first element of a jQuery set, in document order
first(V) == CHOOSE x \in V : \A y \in V : x <= y

\* contentHeight + "px"
px(h) == toString(h) \o <<"p", "x">>

\* .css("max-height", value) on every element of the set V
css(st, V, value) ==
    [st EXCEPT !.maxHeight = [x \in DOMAIN st.maxHeight |->
                                IF x \in V THEN value ELSE st.maxHeight[x]]]

\* expandCard($card, $variablesContainer); .prop("scrollHeight") reads the
\* first element of the set, and an empty set is left alone
expandCard(st, d) ==
    LET V == find(st, d)
        added == [st EXCEPT !.expanded[d] = TRUE]
    IN  IF V = {} THEN added ELSE css(added, V, px(st.height[first(V)]))

\* collapseCard($card, $variablesContainer)
collapseCard(st, d) ==
    css([st EXCEPT !.expanded[d] = FALSE], find(st, d), <<"0", "p", "x">>)

\* toggleCard($card, $variablesContainer), with the handled click recorded
toggleCard(st, d) ==
    LET done == IF st.expanded[d] THEN collapseCard(st, d) ELSE expandCard(st, d)
    IN  [done EXCEPT !.odd[d] = ~st.odd[d], !.clicked[d] = TRUE,
                     !.toggled = st.toggled \cup {d}]

\* shouldHandleClick(event, $card): closest is
\* $(event.target).closest(".concept-card")
shouldHandleClick(closest, d) == closest = d

\* the delegated handler run with this = card d, for a click whose target's
\* nearest card is closest: index.js guards the toggle, the variant does not
cardHandler(st, closest, d) ==
    IF st.variant = "A"
    THEN IF shouldHandleClick(closest, d) THEN toggleCard(st, d) ELSE st
    ELSE toggleCard(st, d)

\* the delegated handler runs for each card of chain, innermost first
RECURSIVE runHandlers(_, _, _)
runHandlers(st, closest, chain) ==
    IF chain = <<>> THEN st
    ELSE runHandlers(cardHandler(st, closest, Head(chain)), closest, Tail(chain))

\* the page is there: a container of count cards
CardsLoad ==
    /\ ~cards.loaded
    /\ \E variant \in {"A", "B"}, count \in 1 .. MaxCards :
        \E parent \in [1 .. count -> 0 .. count - 1],
           hasVars \in [1 .. count -> BOOLEAN],
           height \in [1 .. count -> Heights] :
            /\ \A c \in 1 .. count : parent[c] < c
            /\ cards' = [NoCards EXCEPT
                            !.loaded = TRUE, !.variant = variant,
                            !.parent = parent, !.hasVars = hasVars,
                            !.height = height,
                            !.expanded = [c \in 1 .. count |-> FALSE],
                            !.maxHeight = [c \in 1 .. count |-> <<>>],
                            !.odd = [c \in 1 .. count |-> FALSE],
                            !.clicked = [c \in 1 .. count |-> FALSE]]

\* a click in the container whose target's nearest card is c (0: the click
\* is in no card)
CardClick(c) ==
    /\ cards.loaded
    /\ c \in DOMAIN cards.parent \/ c = 0
    /\ cards' = runHandlers(
                    [cards EXCEPT !.target = c, !.toggled = {},
                                  !.was = [expanded |-> cards.expanded,
                                           maxHeight |-> cards.maxHeight]],
                    c, cardChain(cards.parent, c))

-----------------------------------------------------------------------------
(* Specifications *)

Init ==
    /\ phase = "new"
    /\ thrown = "none"
    /\ items = <<>>
    /\ indicators = <<>>
    /\ nextBtn = FALSE
    /\ prevBtn = FALSE
    /\ index = 0
    /\ viewIndex = <<>>
    /\ pressedKeys = {}
    /\ touchStartX = null
    /\ touchCurrentX = 0
    /\ listeners = {}
    /\ last = Event("none", "none", FALSE, 0, "none", 0)
    /\ run = NoRun
    /\ page = NoPage
    /\ cards = NoCards

Targets == (-MaxTarget .. MaxTarget) \cup {-BigTarget, BigTarget}

\* any constructor argument, on a page with up to MaxN items, up to MaxM
\* indicators and both controls
ConstructPage ==
    \E root \in RootArgs, n \in 1 .. MaxN, m \in 0 .. MaxM :
        \E stale \in SUBSET (0 .. n - 1) :
            Construct(root, n, m, TRUE, TRUE, stale)

\* a slider of n items with an indicator for each and both controls
ConstructFull ==
    \E n \in 1 .. MaxN : Construct("element", n, n, TRUE, TRUE, {})

\* any constructor argument, on a page whose slider has one item, one
\* indicator and any controls
ConstructOne ==
    \E root \in RootArgs, nb, pb \in BOOLEAN : Construct(root, 1, 1, nb, pb, {})

\* Navigation by method calls and by clicks on the indicators.
NavNext ==
    \/ ConstructPage /\ UNCHANGED <<run, page, cards>>
    \/ CallNext /\ UNCHANGED <<run, page, cards>>
    \/ CallPrev /\ UNCHANGED <<run, page, cards>>
    \/ \E t \in Targets : CallGoTo(t) /\ UNCHANGED <<run, page, cards>>
    \/ \E i \in 0 .. MaxM - 1 : ClickIndicator(i) /\ UNCHANGED <<run, page, cards>>

Next == NavNext

Spec == Init /\ [][Next]_vars

\* Navigation by method calls, with calls of update() in between.
UpdateNext ==
    \/ ConstructPage /\ UNCHANGED <<run, page, cards>>
    \/ CallNext /\ UNCHANGED <<run, page, cards>>
    \/ CallPrev /\ UNCHANGED <<run, page, cards>>
    \/ \E t \in Targets : CallGoTo(t) /\ UNCHANGED <<run, page, cards>>
    \/ CallUpdate /\ UNCHANGED <<run, page, cards>>

SpecUpdate == Init /\ [][UpdateNext]_vars

\* Runs of next() calls: run counts the consecutive next() calls, up to N,
\* since this.index was run.base and the items in run.view were in view.
InView == {i \in DOMAIN items : "in-view" \in items[i]}

CountedNext ==
    /\ CallNext
    /\ run' = [base |-> IF run.count \in 1 .. N - 1 THEN run.base ELSE index,
               view |-> IF run.count \in 1 .. N - 1 THEN run.view ELSE InView,
               count |-> IF run.count \in 1 .. N - 1 THEN run.count + 1 ELSE 1,
               wrapped |-> (run.count \in 1 .. N - 1 /\ run.wrapped)
                            \/ last'.raw # index']

CountedPrev ==
    /\ CallPrev
    /\ run' = NoRun

RunNext ==
    \/ ConstructFull /\ UNCHANGED <<run, page, cards>>
    \/ CountedNext /\ UNCHANGED aside
    \/ CountedPrev /\ UNCHANGED aside

SpecRun == Init /\ [][RunNext]_vars

\* Keyboard events.
KeysNext ==
    \/ ConstructFull /\ UNCHANGED <<run, page, cards>>
    \/ \E k \in Keys : KeyDown(k) /\ UNCHANGED <<run, page, cards>>
    \/ \E k \in Keys : KeyUp(k) /\ UNCHANGED <<run, page, cards>>

SpecKeys == Init /\ [][KeysNext]_vars

\* Touch events.
TouchNext ==
    \/ ConstructFull /\ UNCHANGED <<run, page, cards>>
    \/ \E x \in TouchXs, touches \in 1 .. 2 : TouchStart(x, touches) /\ UNCHANGED <<run, page, cards>>
    \/ \E x \in TouchXs, touches \in 1 .. 2 : TouchMove(x, touches) /\ UNCHANGED <<run, page, cards>>
    \/ TouchEnd /\ UNCHANGED <<run, page, cards>>
    \/ TouchCancel /\ UNCHANGED <<run, page, cards>>

SpecTouch == Init /\ [][TouchNext]_vars

\* Construction with every kind of argument, then every kind of event.
CtorNext ==
    \/ ConstructOne /\ UNCHANGED <<run, page, cards>>
    \/ ClickNext /\ UNCHANGED <<run, page, cards>>
    \/ ClickPrev /\ UNCHANGED <<run, page, cards>>
    \/ ClickIndicator(0) /\ UNCHANGED <<run, page, cards>>
    \/ \E k \in Keys : KeyDown(k) /\ UNCHANGED <<run, page, cards>>
    \/ \E k \in Keys : KeyUp(k) /\ UNCHANGED <<run, page, cards>>
    \/ \E x \in TouchXs, touches \in 1 .. 2 : TouchStart(x, touches) /\ UNCHANGED <<run, page, cards>>
    \/ \E x \in TouchXs, touches \in 1 .. 2 : TouchMove(x, touches) /\ UNCHANGED <<run, page, cards>>
    \/ TouchEnd /\ UNCHANGED <<run, page, cards>>
    \/ TouchCancel /\ UNCHANGED <<run, page, cards>>

\* Every kind of event on a slider of FrameN items, the keys being those of
\* FrameKeys and the touches at the positions of FrameXs.
ConstructFrame == Construct("element", FrameN, MaxM, TRUE, TRUE, {})

FrameKeys == {"ArrowRight", "Enter"}
FrameXs == {70, 100, 131}

FrameNext ==
    \/ ConstructFrame /\ UNCHANGED <<run, page, cards>>
    \/ ClickNext /\ UNCHANGED <<run, page, cards>>
    \/ ClickPrev /\ UNCHANGED <<run, page, cards>>
    \/ \E i \in 0 .. MaxM - 1 : ClickIndicator(i) /\ UNCHANGED <<run, page, cards>>
    \/ \E k \in FrameKeys : KeyDown(k) /\ UNCHANGED <<run, page, cards>>
    \/ \E k \in FrameKeys : KeyUp(k) /\ UNCHANGED <<run, page, cards>>
    \/ \E x \in FrameXs, touches \in 1 .. 2 : TouchStart(x, touches) /\ UNCHANGED <<run, page, cards>>
    \/ \E x \in FrameXs, touches \in 1 .. 2 : TouchMove(x, touches) /\ UNCHANGED <<run, page, cards>>
    \/ TouchEnd /\ UNCHANGED <<run, page, cards>>
    \/ TouchCancel /\ UNCHANGED <<run, page, cards>>

SpecFrame == Init /\ [][FrameNext]_vars

\* Key events on a page of several sliders.
PageNext ==
    \/ PageLoad /\ UNCHANGED <<single, cards>>
    \/ \E k \in Keys : PageKeyDown(k) /\ UNCHANGED <<single, cards>>
    \/ \E k \in Keys : PageKeyUp(k) /\ UNCHANGED <<single, cards>>

SpecPage == Init /\ [][PageNext]_vars

\* Clicks on concept cards.
CardsNext ==
    \/ CardsLoad /\ UNCHANGED <<single, page>>
    \/ \E c \in 0 .. MaxCards : CardClick(c) /\ UNCHANGED <<single, page>>

SpecCards == Init /\ [][CardsNext]_vars

SpecCtor == Init /\ [][CtorNext]_vars

-----------------------------------------------------------------------------
(* Properties *)

NextItem == {i \in DOMAIN items : "next-item" \in items[i]}
PreviousItem == {i \in DOMAIN items : "previous-item" \in items[i]}
Active == {i \in DOMAIN indicators : "active" \in indicators[i]}

\* N * ceil(100 / N)
RewrapBound == N * ((WrapLimit + N - 1) \div N)

\* the last event called a navigation method
Navigated == phase = "ready" /\ last.nav # "none"

\* update() rewrapped this.index during the last event
Rewrapped == Navigated /\ last.raw # index

Thm_C4 ==
    Navigated /\ last.nav = "next" /\ Abs(last.raw) > RewrapBound =>
        /\ index \in 0 .. N - 1
        /\ index % N = last.raw % N
        /\ InView = {last.raw % N}
        /\ NextItem = {(last.raw + 1) % N}
        /\ PreviousItem = {(last.raw - 1) % N}
        /\ InView = {(last.pre + 1) % N}

\* next() has taken the index past the bound, upwards
Wit_C4 ==
    /\ Navigated
    /\ last.nav = "next"
    /\ last.raw > RewrapBound
    /\ last.pre = RewrapBound

\* N consecutive next() calls have just returned
RunDone == phase = "ready" /\ last.nav = "next" /\ run.count = N

\* C5 as stated: N calls of next() bring the item that was in view back in
\* view, and the index has increased by N.
Orig_C5 ==
    RunDone =>
        /\ InView = run.view
        /\ index = run.base + N

\* C5 amended: N calls of next() bring the item that was in view back in
\* view, and the index has changed by a multiple of N: unless update()
\* rewrapped it during the calls, it has increased by N when N >= 3,
\* decreased by 2 when N = 2 (each next() steps by -1) and not changed when
\* N = 1.
Thm_C5 ==
    RunDone =>
        /\ InView = run.view
        /\ (index - run.base) % N = 0
        /\ ~run.wrapped /\ N >= 3 => index = run.base + N
        /\ ~run.wrapped /\ N = 2 => index = run.base - 2
        /\ ~run.wrapped /\ N = 1 => index = run.base

\* a run of N >= 3 calls that started at a negative index, away from the bound
Wit_C5 == RunDone /\ N >= 3 /\ run.base < 0 /\ ~run.wrapped /\ index = run.base + N

\* C6: in every state after construction or after a next(), prev() or
\* goTo(t) call returned, |index| <= N * ceil(100/N).
Thm_C6 == phase = "ready" => Abs(index) <= RewrapBound

\* the index has reached the bound from below, on N = 3, where the bound is 102
Wit_C6 == Navigated /\ N = 3 /\ index = -RewrapBound /\ RewrapBound > WrapLimit

\* what the slider shows: the index, the published property and the flags
shown == <<index, viewIndex, items, indicators>>

KeyStep ==
    \A k \in Keys :
        /\ phase = "ready" /\ last'.ev = "keydown" /\ last'.key = k =>
                IF k \in pressedKeys
                THEN /\ UNCHANGED sliderVars
                     /\ last'.nav = "none"
                ELSE /\ pressedKeys' = pressedKeys \cup {k}
                     /\ k = "ArrowLeft" =>
                            /\ last'.nav = "prev"
                            /\ InView' = {(index - 1) % N}
                     /\ k = "ArrowRight" =>
                            /\ last'.nav = "next"
                            /\ InView' = {(index + 1) % N}
                     /\ k \notin {"ArrowLeft", "ArrowRight"} =>
                            /\ last'.nav = "none"
                            /\ UNCHANGED shown
        /\ phase = "ready" /\ last'.ev = "keyup" /\ last'.key = k =>
                /\ pressedKeys' = pressedKeys \ {k}
                /\ last'.nav = "none"
                /\ UNCHANGED shown

\* C7: a keydown of a key in the pressed-key set navigates nowhere and changes
\* no state; a keydown of a key not in it adds the key and calls prev() once
\* for ArrowLeft, next() once for ArrowRight and nothing for another key;
\* keyup removes the key.  A key that stays held therefore navigates once.
Thm_C7 == [][KeyStep]_vars

\* a repeated keydown of ArrowRight has arrived while the key was held
Wit_C7 ==
    /\ phase = "ready"
    /\ last.ev = "keydown"
    /\ last.key = "ArrowRight"
    /\ last.held
    /\ N >= 3
    /\ index # 0

TouchEndStep ==
    phase = "ready" /\ last'.ev = "touchend" =>
        IF touchStartX = null
        THEN /\ UNCHANGED sliderVars
             /\ last'.nav = "none"
        ELSE /\ touchStartX' = null
             /\ touchCurrentX' = 0
             /\ last'.nav # "none" <=> Abs(touchCurrentX - touchStartX[1]) > 30
             /\ touchCurrentX - touchStartX[1] > 30 =>
                    /\ last'.nav = "prev"
                    /\ InView' = {(index - 1) % N}
             /\ touchCurrentX - touchStartX[1] < -30 =>
                    /\ last'.nav = "next"
                    /\ InView' = {(index + 1) % N}
             /\ Abs(touchCurrentX - touchStartX[1]) <= 30 => UNCHANGED shown

\* C8: at touchend with a recorded start, delta = currentX - startX; the
\* slider navigates, once, iff |delta| > 30: prev() when delta > 0, next()
\* when delta < 0; the tracking is cleared in every case, and a touchend
\* with no recorded start does nothing.
Thm_C8 == [][TouchEndStep]_vars

\* start at 100, move to 50, end: next() has been called
Wit_C8 ==
    /\ phase = "ready"
    /\ last.ev = "touchend"
    /\ last.startX = Some(100)
    /\ last.currentX = 50
    /\ last.nav = "next"
    /\ touchStartX = null
    /\ N >= 3

TouchCancelStep ==
    /\ phase = "ready" /\ last'.ev = "touchcancel" =>
            /\ touchStartX' = null
            /\ touchCurrentX' = 0
            /\ last'.nav = "none"
            /\ UNCHANGED <<shown, pressedKeys, listeners>>
    /\ phase = "ready" /\ touchStartX = null
         /\ (\/ last'.ev \in {"touchmove", "touchend"}
             \/ last'.ev = "touchstart" /\ last'.touches # 1) =>
            /\ touchCurrentX = 0
            /\ last'.nav = "none"
            /\ UNCHANGED sliderVars

\* C9: touchcancel clears the tracking (no start, current X 0) and changes
\* neither the index nor a flag; while no start is recorded, that is until
\* a single-touch touchstart, touchmove and touchend record nothing and
\* navigate nowhere.
Thm_C9 == [][TouchCancelStep]_vars

\* a touch that had moved beyond the threshold has been cancelled
Wit_C9 ==
    /\ phase = "ready"
    /\ last.ev = "touchcancel"
    /\ last.startX # null
    /\ Abs(last.currentX - last.startX[1]) > SwipeThreshold
    /\ touchStartX = null

\* C10: a constructor call with a selector that matches nothing, or with an
\* argument that is neither a selector nor an element, throws; no listener
\* has been registered and no class or property written, and the events that
\* follow change nothing.
Thm_C10 ==
    /\ last.ev = "construct" /\ last.key \notin {"selector-hit", "element"} =>
            phase = "threw"
    /\ phase = "threw" =>
            /\ thrown # "none"
            /\ listeners = {}
            /\ items = <<>>
            /\ indicators = <<>>
            /\ viewIndex = <<>>
            /\ index = 0
            /\ pressedKeys = {}
            /\ touchStartX = null
            /\ touchCurrentX = 0

\* the constructor threw and an ArrowRight keydown followed
Wit_C10 ==
    /\ phase = "threw"
    /\ thrown = "No element matches selector"
    /\ last.ev = "keydown"
    /\ last.key = "ArrowRight"

\* the items of the instance s that carry "in-view"
sliderInView(s) == {i \in DOMAIN s.items : "in-view" \in s.items[i]}

PageKeyStep ==
    \A j \in DOMAIN page.sliders :
        LET s == page.sliders[j]
            t == page'.sliders[j]
            total == length(s.items)
        IN  /\ page'.ev = "keydown" /\ page'.key = "ArrowRight"
                 /\ "ArrowRight" \notin s.pressedKeys =>
                    /\ sliderInView(t) = {(s.index + 1) % total}
                    /\ t.index % total = (s.index + 1) % total
                    /\ "ArrowRight" \in t.pressedKeys
            /\ page'.ev = "keydown" /\ page'.key = "ArrowLeft"
                 /\ "ArrowLeft" \notin s.pressedKeys =>
                    /\ sliderInView(t) = {(s.index - 1) % total}
                    /\ t.index % total = (s.index - 1) % total
                    /\ "ArrowLeft" \in t.pressedKeys

\* C11: with two or more instances on a page, one ArrowRight (ArrowLeft)
\* keydown of a key that is not held moves the in-view position of every
\* instance forward (backward) by exactly one position modulo its own N,
\* each instance using its own index and pressed-key set.
Thm_C11 == [][PageKeyStep]_vars

\* two instances of different sizes have both moved, one ArrowRight then
\* one ArrowLeft keydown having arrived
Wit_C11 ==
    /\ Len(page.sliders) >= 2
    /\ page.ev = "keydown"
    /\ page.key = "ArrowLeft"
    /\ length(page.sliders[1].items) = 3
    /\ length(page.sliders[2].items) = 4
    /\ page.sliders[1].index = 0
    /\ page.sliders[2].index = 0
    /\ page.sliders[1].pressedKeys = {"ArrowLeft", "ArrowRight"}
    /\ page.sliders[2].pressedKeys = {"ArrowLeft", "ArrowRight"}

\* C12 as stated: every accepted click on a card flips its expanded flag; a
\* card that becomes expanded has the max extent of its content region set
\* to the region's natural height, "<h>px", one that becomes collapsed has
\* it set to "0px"; so a card is expanded iff its accepted clicks are odd in
\* number, and a collapsed card that has been clicked has max extent "0px".
Orig_C12 ==
    cards.loaded =>
        \A d \in DOMAIN cards.parent :
            /\ d \in cards.toggled =>
                    /\ cards.expanded[d] = ~cards.was.expanded[d]
                    /\ cards.hasVars[d] =>
                            cards.maxHeight[d] =
                                IF cards.expanded[d] THEN px(cards.height[d])
                                ELSE <<"0", "p", "x">>
            /\ cards.expanded[d] <=> cards.odd[d]
            /\ cards.clicked[d] /\ ~cards.expanded[d] /\ cards.hasVars[d] =>
                    cards.maxHeight[d] = <<"0", "p", "x">>

\* C13 as stated: with the click guard of index.js, a click whose target's
\* nearest card is c toggles c and only c; every other card keeps its
\* expanded flag and its max extent.
Orig_C13 ==
    cards.loaded /\ cards.variant = "A" /\ cards.target # 0 =>
        /\ cards.toggled = {cards.target}
        /\ \A d \in DOMAIN cards.parent \ {cards.target} :
                /\ cards.expanded[d] = cards.was.expanded[d]
                /\ cards.maxHeight[d] = cards.was.maxHeight[d]

\* C14: update() is idempotent.  Every state of a constructed slider was left
\* by a call of update() (the constructor's, a navigation's or a script's),
\* so a call of update() with no navigation since leaves the index, the
\* published value, the flags of every item and the active indicators as the
\* call before it left them; in particular the second of two successive
\* calls does.
UpdateStep ==
    phase = "ready" /\ last'.ev = "update" =>
        /\ index' = index
        /\ viewIndex' = viewIndex
        /\ InView' = InView
        /\ NextItem' = NextItem
        /\ PreviousItem' = PreviousItem
        /\ Active' = Active
        /\ UNCHANGED shown

Thm_C14 == [][UpdateStep]_vars

\* update() has been called twice in succession on a slider of at least
\* three items whose index is beyond 100 in absolute value
Wit_C14 ==
    /\ phase = "ready"
    /\ last.ev = "update"
    /\ last.key = "again"
    /\ N >= 3
    /\ Abs(index) > WrapLimit
    /\ Cardinality(InView \cup NextItem \cup PreviousItem) = 3

\* the items that carry more than one of the three flags
Coinciding == {i \in DOMAIN items : Cardinality(items[i] \cap ItemFlags) >= 2}

\* C15: in every state of a constructed slider exactly one item carries
\* "next-item", the item at (index + 1) mod N, and exactly one carries
\* "previous-item", the item at (index - 1) mod N; with three items or more
\* the in-view, next and previous items are three different items, and two
\* flags sit on one item only when N <= 2.
Thm_C15 ==
    phase = "ready" =>
        /\ N >= 1
        /\ NextItem = {mod(index + 1, N)}
        /\ PreviousItem = {mod(index - 1, N)}
        /\ N >= 3 => Cardinality(InView \cup NextItem \cup PreviousItem) = 3
        /\ Coinciding # {} => N <= 2

\* a navigation has left a negative index on a slider of three items or
\* more, and the last item is the previous one
Wit_C15 ==
    /\ Navigated
    /\ N >= 3
    /\ index < 0
    /\ NextItem = {mod(index + 1, N)}
    /\ PreviousItem = {N - 1}

\* C16: in every state of a constructed slider the indicator at position
\* index mod N carries "active" and no other indicator does; when there are
\* M <= index mod N indicators none is active, and nothing is thrown.
Thm_C16 ==
    phase = "ready" =>
        /\ thrown = "none"
        /\ Active = IF mod(index, N) < M THEN {mod(index, N)} ELSE {}

\* a navigation has brought into view an item beyond the last indicator
Wit_C16 ==
    /\ Navigated
    /\ M >= 1
    /\ M <= mod(index, N)
    /\ Active = {}
    /\ thrown = "none"

\* the events that C17 names: keyup, keydown of a key that is no arrow or is
\* already held, touchstart, touchmove, touchcancel, and touchend with no
\* recorded start or with |delta| <= 30
Framed ==
    \/ last'.ev = "keyup"
    \/ last'.ev = "keydown"
            /\ (last'.key \notin {"ArrowLeft", "ArrowRight"} \/ last'.key \in pressedKeys)
    \/ last'.ev \in {"touchstart", "touchmove", "touchcancel"}
    \/ last'.ev = "touchend"
            /\ (touchStartX = null \/ Abs(touchCurrentX - touchStartX[1]) <= 30)

FrameStep ==
    phase = "ready" =>
        /\ Framed =>
                /\ last'.nav = "none"
                /\ index' = index
                /\ viewIndex' = viewIndex
                /\ items' = items
                /\ indicators' = indicators
        /\ shown' # shown => last'.nav \in {"goTo", "next", "prev"}

\* C17: the index changes only through goTo, next and prev.  The events
\* named above call none of them and leave the index, the published value
\* and the flags of every item and indicator as they were; an event that
\* changes any of these has called goTo, next or prev.
Thm_C17 == [][FrameStep]_vars

\* a touchend has arrived after a move of exactly 30 from the recorded
\* start, with a key held, on a slider that earlier events had moved
Wit_C17 ==
    /\ phase = "ready"
    /\ last.ev = "touchend"
    /\ last.startX # null
    /\ Abs(last.currentX - last.startX[1]) = SwipeThreshold
    /\ last.nav = "none"
    /\ pressedKeys # {}
    /\ index # 0
    /\ index = last.pre

\* the last navigation had its target half a turn away: N is even and
\* target - index was congruent to N/2 modulo N
HalfTurn ==
    /\ Navigated
    /\ N % 2 = 0
    /\ (last.target - last.pre - N \div 2) % N = 0

\* C18 as stated: on a half turn goTo changes index by -N/2, and for N = 2
\* next() and prev() both decrease index by 1.
Orig_C18 ==
    /\ HalfTurn => index - last.pre = -(N \div 2)
    /\ Navigated /\ N = 2 /\ last.nav \in {"next", "prev"} =>
            index = last.pre - 1

\* C18 amended: on a half turn goTo adds -N/2 to index, never +N/2, which is
\* ((distance + N/2) mod N) - N/2, and for N = 2 next() and prev() both add
\* -1; update() then leaves that sum in index unless its magnitude exceeds
\* N * ceil(100/N), and then it leaves the sum's remainder modulo N.
Thm_C18 ==
    /\ HalfTurn =>
            /\ last.raw - last.pre = -(N \div 2)
            /\ last.raw - last.pre =
                    ((last.target - last.pre + N \div 2) % N) - N \div 2
    /\ Navigated /\ N = 2 /\ last.nav \in {"next", "prev"} =>
            last.raw = last.pre - 1
    /\ Navigated /\ N % 2 = 0 =>
            index = IF Abs(last.raw) > RewrapBound THEN last.raw % N
                    ELSE last.raw

\* on a slider of two items next() has stepped the index down from -100 and
\* update() has replaced -101 by 1
Wit_C18 ==
    /\ HalfTurn
    /\ N = 2
    /\ last.nav = "next"
    /\ last.pre = -WrapLimit
    /\ last.raw = last.pre - 1
    /\ index = 1

\* C19 as stated: after any next(), prev() or goTo call has returned,
\* -100 <= index <= 100.
Orig_C19 == Navigated => -100 <= index /\ index <= 100

\* the number a decimal string denotes, as a reader of the property takes it
DigitValue(c) ==
    CASE c = "0" -> 0 [] c = "1" -> 1 [] c = "2" -> 2 [] c = "3" -> 3
      [] c = "4" -> 4 [] c = "5" -> 5 [] c = "6" -> 6 [] c = "7" -> 7
      [] c = "8" -> 8 [] c = "9" -> 9

RECURSIVE NatValue(_)
NatValue(str) ==
    IF str = <<>> THEN 0
    ELSE 10 * NatValue(SubSeq(str, 1, Len(str) - 1)) + DigitValue(str[Len(str)])

Digits(str) == IF str # <<>> /\ str[1] = "-" THEN Tail(str) ELSE str

Decimal(str) ==
    IF str # <<>> /\ str[1] = "-" THEN -NatValue(Tail(str)) ELSE NatValue(str)

\* str is the decimal string of an integer: digits without a leading zero,
\* after a "-" when the integer is negative
IsDecimal(str) ==
    /\ Digits(str) # <<>>
    /\ \A i \in DOMAIN Digits(str) :
            Digits(str)[i] \in {"0", "1", "2", "3", "4", "5", "6", "7", "8", "9"}
    /\ Len(Digits(str)) > 1 => Digits(str)[1] # "0"
    /\ str[1] = "-" => NatValue(Digits(str)) > 0

\* C20: in every state of a constructed slider --view-index holds the
\* decimal string of index, the value update() left after its rewrap and not
\* the one it started with, so the published value modulo N is the position
\* of the item in view.
Thm_C20 ==
    phase = "ready" =>
        /\ IsDecimal(viewIndex)
        /\ Decimal(viewIndex) = index
        /\ Rewrapped => Decimal(viewIndex) # last.raw
        /\ InView = {Decimal(viewIndex) % N}

\* update() has rewrapped an index below -100 and published the positive
\* remainder
Wit_C20 ==
    /\ Rewrapped
    /\ last.raw < -WrapLimit
    /\ index > 0
    /\ Decimal(viewIndex) = index
    /\ N >= 3

====
